---- MODULE Spec2Model ----
(***************************************************************************)
(* Model of the Universe of src/src/lib.rs: a toroidal Game of Life grid   *)
(* held in a FixedBitSet, with its sizing, seeding, cell mutation, pattern *)
(* stamping and tick operations.                                           *)
(*                                                                         *)
(* u32 values are kept as TLC integers in two's complement: a value below  *)
(* 2^31 is itself, a value v >= 2^31 is the negative integer v - 2^32.     *)
(* Ring operations (+, -, * mod 2^32) are then the plain integer           *)
(* operations as long as the result stays inside the 32-bit signed range,  *)
(* which every input of the model does.                                    *)
(***************************************************************************)
EXTENDS Integers, Sequences, FiniteSets, TLC

VARIABLES
    width,            \* Universe.width  (u32)
    height,           \* Universe.height (u32)
    cells,            \* Universe.cells: a FixedBitSet [length, bits]; bit i is bits[i + 1]
    status,           \* "ok", or "panicked" once an operation has ended in a panic
    overflow_checks,  \* the build: TRUE = arithmetic overflow panics, FALSE = it wraps
    op,               \* history: the last operation, its arguments and what it returned
    prev,             \* history: width, height and cells when the last operation began
    base,             \* history: cells after the last operation that was not a tick
    gen               \* history: number of ticks since then

vars == <<width, height, cells, status, overflow_checks, op, prev, base, gen>>

(***************************************************************************)
(* Bounds of the model.                                                    *)
(***************************************************************************)
\* dimensions and coordinates handed to the operations range over 0..MaxDim
MaxDim == 3
\* cell-changing operations are explored on grids of at most MaxCells cells
MaxCells == 6
\* set_cells is handed lists of at most MaxListLen coordinates
MaxListLen == 2
\* at most MaxGen ticks are taken after an operation that is not a tick
MaxGen == 6

\* SpecGen starts from every content of every grid of at most MaxGenCells cells
MaxGenCells == 9
\* SpecPat stamps block, blinker and glider on grids of 4..MaxPatDim rows and columns
MaxPatDim == 6
\* SpecPat stamps pulsar on grids of MinPulsarDim and of MaxPulsarDim rows and columns
MaxPulsarDim == 17

(***************************************************************************)
(* Program constants.                                                      *)
(***************************************************************************)
\* new(): let width: u32 = 64
DefaultWidth == 64
\* new(): let height: u32 = 64
DefaultHeight == 64
\* bits per FixedBitSet block; seed() makes bits/32 words
BlockBits == 32
\* the largest word seed() can make: (trunc(r * 10^17) as u64) >> 32 with
\* 0 <= r < 1 is at most floor((10^17 - 1) / 2^32)
MaxSeedWord == 23283064
\* pulsar: the largest offset of its array, (row - 6, ...), (row + 6, ...)
PulsarReach == 6

(***************************************************************************)
(* u32 arithmetic.  Each operation gives [ok, val]: ok is FALSE when the   *)
(* operation panics (overflow in a build with overflow checks, or a zero   *)
(* divisor), val is the wrapped result.                                    *)
(***************************************************************************)
\* unsigned a < b on two's complement representatives
U32Lt(a, b) ==
    IF (a >= 0) = (b >= 0) THEN a < b ELSE a >= 0

\* a + b overflows u32
AddOverflows(a, b) ==
    IF a >= 0 /\ b >= 0 THEN FALSE
    ELSE IF a < 0 /\ b < 0 THEN TRUE
    ELSE a + b >= 0

\* a * b overflows u32
MulOverflows(a, b) ==
    IF a = 0 \/ b = 0 \/ a = 1 \/ b = 1 THEN FALSE
    ELSE a < 0 \/ b < 0

U32Add(a, b, checks) ==
    [ok |-> ~(checks /\ AddOverflows(a, b)), val |-> a + b]

U32Sub(a, b, checks) ==
    [ok |-> ~(checks /\ U32Lt(a, b)), val |-> a - b]

U32Mul(a, b, checks) ==
    [ok |-> ~(checks /\ MulOverflows(a, b)), val |-> a * b]

(***************************************************************************)
(* FixedBitSet.                                                            *)
(***************************************************************************)
\* FixedBitSet::with_capacity(bits): bits bits, all false
WithCapacity(bits) ==
    [length |-> bits, bits |-> [i \in 1..bits |-> FALSE]]

\* FixedBitSet::len()
BitLen(bs) ==
    bs.length

\* bit j (0 = least significant) of the 32-bit word w
WordBit(w, j) ==
    IF j >= 31 THEN w < 0 ELSE ((w \div (2 ^ j)) % 2) = 1

\* FixedBitSet::with_capacity_and_blocks(bits, blocks): bit i is bit i % 32 of
\* block i / 32; missing blocks are padded with zero
WithCapacityAndBlocks(bits, blocks) ==
    [length |-> bits,
     bits |-> [i \in 1..bits |->
        IF ((i - 1) \div BlockBits) + 1 <= Len(blocks)
        THEN WordBit(blocks[((i - 1) \div BlockBits) + 1], (i - 1) % BlockBits)
        ELSE FALSE]]

\* the rows and the columns of the grid
Rows(h) == 0..(h - 1)
Cols(w) == 0..(w - 1)

(***************************************************************************)
(* Universe: private helpers.                                              *)
(***************************************************************************)
\* FixedBitSet::set and FixedBitSet::toggle assert bit < length; the index is
\* a usize, so a wrapped (negative) representative is a huge index
InRange(bs, bit) ==
    bit >= 0 /\ bit < BitLen(bs)

\* a set that flips the bit instead of writing the value it is given
BitSetToggling(bs, bit, enabled) ==
    IF InRange(bs, bit)
    THEN [ok |-> TRUE, val |-> [bs EXCEPT !.bits[bit + 1] = ~bs.bits[bit + 1]]]
    ELSE [ok |-> FALSE, val |-> bs]

\* FixedBitSet::set(bit, enabled)
BitSet(bs, bit, enabled) ==
    IF InRange(bs, bit)
    THEN [ok |-> TRUE, val |-> [bs EXCEPT !.bits[bit + 1] = enabled]]
    ELSE [ok |-> FALSE, val |-> bs]

\* FixedBitSet::toggle(bit)
BitToggle(bs, bit) ==
    IF InRange(bs, bit)
    THEN [ok |-> TRUE, val |-> [bs EXCEPT !.bits[bit + 1] = ~bs.bits[bit + 1]]]
    ELSE [ok |-> FALSE, val |-> bs]

\* self.cells[idx]: the Index of a FixedBitSet is false outside its length
BitGet(bs, idx) ==
    IF InRange(bs, idx) THEN bs.bits[idx + 1] ELSE FALSE

\* a get_index that leaves out the multiplication: row + col
GetIndexNoStride(w, row, col, checks) ==
    [ok |-> ~(checks /\ AddOverflows(row, col)), val |-> row + col]

\* a get_index that takes the column for the row: col * self.width + row
GetIndexTransposed(w, row, col, checks) ==
    [ok |-> ~(checks /\ (MulOverflows(col, w) \/ AddOverflows(col * w, row))),
     val |-> col * w + row]

\* get_index(row, col) = (row * self.width + col) as usize
GetIndex(w, row, col, checks) ==
    [ok |-> ~(checks /\ (MulOverflows(row, w) \/ AddOverflows(row * w, col))),
     val |-> row * w + col]

\* a set_cells loop that takes the list from its last coordinate to its first
RECURSIVE SetCellsBackFrom(_, _, _, _, _)
SetCellsBackFrom(bs, w, list, k, checks) ==
    IF k > Len(list) THEN [ok |-> TRUE, val |-> bs]
    ELSE LET idx == GetIndex(w, list[Len(list) + 1 - k][1], list[Len(list) + 1 - k][2], checks)
             s == BitSet(bs, idx.val, TRUE)
         IN  IF ~idx.ok THEN [ok |-> FALSE, val |-> bs]
             ELSE IF ~s.ok THEN [ok |-> FALSE, val |-> bs]
             ELSE SetCellsBackFrom(s.val, w, list, k + 1, checks)

\* set_cells: for (row, col) in cells { idx = get_index(row, col);
\* self.cells.set(idx, true) }, from the k-th coordinate of the list on; a
\* panic ends the loop with the bits set so far
RECURSIVE SetCellsFrom(_, _, _, _, _)
SetCellsFrom(bs, w, list, k, checks) ==
    IF k > Len(list) THEN [ok |-> TRUE, val |-> bs]
    ELSE LET idx == GetIndex(w, list[k][1], list[k][2], checks)
             s == BitSet(bs, idx.val, TRUE)
         IN  IF ~idx.ok THEN [ok |-> FALSE, val |-> bs]
             ELSE IF ~s.ok THEN [ok |-> FALSE, val |-> bs]
             ELSE SetCellsFrom(s.val, w, list, k + 1, checks)

SetCellsResult(bs, w, list, checks) ==
    SetCellsFrom(bs, w, list, 1, checks)

\* a delta array whose first member is d + 1: one step forward, never back
DeltasForward(d) ==
    <<d + 1, 0, 1>>

\* the array [d - 1, 0, 1] of live_neighbour_count, d a dimension
Deltas(d) ==
    <<d - 1, 0, 1>>

\* the places (i, j) in the two delta arrays the nested loops pass through
DeltaPairs ==
    (1..3) \X (1..3)

\* loops without the continue: the cell itself is read with its neighbours
SkippedNever(w, h, p) ==
    FALSE

\* if delta_row == 0 && delta_col == 0 { continue; }
Skipped(w, h, p) ==
    Deltas(h)[p[1]] = 0 /\ Deltas(w)[p[2]] = 0

\* a neighbour_row without the remainder: row + delta_row
NeighbourRowNoWrap(h, row, p) ==
    row + Deltas(h)[p[1]]

\* neighbour_row = (row + delta_row) % self.height
NeighbourRow(h, row, p) ==
    (row + Deltas(h)[p[1]]) % h

\* neighbour_col = (col + delta_col) % self.width
NeighbourCol(w, col, p) ==
    (col + Deltas(w)[p[2]]) % w

\* the (neighbour_row, neighbour_col) pairs the loops of live_neighbour_count
\* read, in the order they read them
Examined(w, h, row, col) ==
    LET Kept(p) == ~Skipped(w, h, p)
        kept == SelectSeq(<< <<1, 1>>, <<1, 2>>, <<1, 3>>,
                             <<2, 1>>, <<2, 2>>, <<2, 3>>,
                             <<3, 1>>, <<3, 2>>, <<3, 3>> >>, Kept)
    IN  [k \in 1..Len(kept) |-> <<NeighbourRow(h, row, kept[k]), NeighbourCol(w, col, kept[k])>>]

\* live_neighbour_count(row, col) on the bits bs.  With a zero dimension the
\* remainder panics in every build; with w, h >= 1 and row < h, col < w below
\* 2^31 no subtraction or addition overflows, and the bits of the pairs that
\* are not skipped are read and counted
LiveNeighbourCount(bs, w, h, row, col, checks) ==
    IF w = 0 \/ h = 0 THEN [ok |-> FALSE, val |-> 0]
    ELSE [ok |-> TRUE,
          val |-> Cardinality({p \in DeltaPairs :
                     /\ ~Skipped(w, h, p)
                     /\ BitGet(bs, GetIndex(w, NeighbourRow(h, row, p),
                                            NeighbourCol(w, col, p), checks).val)})]

\* a match whose fourth arm gives birth with fewer than 3 neighbours
RuleBirthBelow3(cell, n) ==
    IF cell /\ n < 2 THEN FALSE
    ELSE IF cell /\ (n = 2 \/ n = 3) THEN TRUE
    ELSE IF cell /\ n > 3 THEN FALSE
    ELSE IF ~cell /\ n < 3 THEN TRUE
    ELSE cell

\* a match whose second arm keeps a live cell with 2 neighbours only
RuleCrowded3(cell, n) ==
    IF cell /\ n < 2 THEN FALSE
    ELSE IF cell /\ n = 2 THEN TRUE
    ELSE IF cell /\ n > 2 THEN FALSE
    ELSE IF ~cell /\ n = 3 THEN TRUE
    ELSE cell

\* the match of tick: the cell's next state from its state and its count
Rule(cell, n) ==
    IF cell /\ n < 2 THEN FALSE
    ELSE IF cell /\ (n = 2 \/ n = 3) THEN TRUE
    ELSE IF cell /\ n > 3 THEN FALSE
    ELSE IF ~cell /\ n = 3 THEN TRUE
    ELSE cell

\* an iteration that reads cell and count from next, the grid being written
TickCellInPlace(cur, next, w, h, row, col, checks) ==
    LET idx == GetIndex(w, row, col, checks)
        cell == BitGet(next, idx.val)
        n == LiveNeighbourCount(next, w, h, row, col, checks)
        s == BitSet(next, idx.val, Rule(cell, n.val))
    IN  [ok |-> idx.ok /\ n.ok /\ s.ok, val |-> s.val]

\* one iteration of the loops of tick: reads cell and count from cur (self.cells),
\* writes next
TickCell(cur, next, w, h, row, col, checks) ==
    LET idx == GetIndex(w, row, col, checks)
        cell == BitGet(cur, idx.val)
        n == LiveNeighbourCount(cur, w, h, row, col, checks)
        s == BitSet(next, idx.val, Rule(cell, n.val))
    IN  [ok |-> idx.ok /\ n.ok /\ s.ok, val |-> s.val]

\* for col in col..self.width
RECURSIVE TickCols(_, _, _, _, _, _, _)
TickCols(cur, next, w, h, row, col, checks) ==
    IF col >= w THEN [ok |-> TRUE, val |-> next]
    ELSE LET c == TickCell(cur, next, w, h, row, col, checks)
         IN  IF ~c.ok THEN c
             ELSE TickCols(cur, c.val, w, h, row, col + 1, checks)

\* for row in row..self.height
RECURSIVE TickRows(_, _, _, _, _, _)
TickRows(cur, next, w, h, row, checks) ==
    IF row >= h THEN [ok |-> TRUE, val |-> next]
    ELSE LET r == TickCols(cur, next, w, h, row, 0, checks)
         IN  IF ~r.ok THEN r
             ELSE TickRows(cur, r.val, w, h, row + 1, checks)

\* tick: next = self.cells.clone(); the loops; the value self.cells is given
TickResult(bs, w, h, checks) ==
    TickRows(bs, bs, w, h, 0, checks)

\* x + d, written x - (-d) in the source when the offset d is negative
Offset(x, d, checks) ==
    IF d < 0 THEN U32Sub(x, -d, checks) ELSE U32Add(x, d, checks)

\* a glider array whose last member is (row + 1, col + 1)
GliderOffsetsTypo ==
    << <<0, 0>>, <<0, 1>>, <<-1, -1>>, <<1, 0>>, <<1, 1>> >>

\* the offsets of the array glider builds, in source order
GliderOffsets ==
    << <<0, 0>>, <<0, 1>>, <<-1, -1>>, <<1, 0>>, <<1, -1>> >>

\* the offsets of the array pulsar builds, in source order
PulsarOffsets ==
    << <<-1, 2>>, <<-1, 3>>, <<-1, 4>>,
       <<-1, -2>>, <<-1, -3>>, <<-1, -4>>,
       <<-2, 1>>, <<-2, 6>>, <<-2, -1>>, <<-2, -6>>,
       <<-3, 1>>, <<-3, 6>>, <<-3, -1>>, <<-3, -6>>,
       <<-4, 1>>, <<-4, 6>>, <<-4, -1>>, <<-4, -6>>,
       <<-6, 2>>, <<-6, 3>>, <<-6, 4>>,
       <<-6, -2>>, <<-6, -3>>, <<-6, -4>>,
       <<1, 2>>, <<1, 3>>, <<1, 4>>,
       <<1, -2>>, <<1, -3>>, <<1, -4>>,
       <<2, 1>>, <<2, 6>>, <<2, -1>>, <<2, -6>>,
       <<3, 1>>, <<3, 6>>, <<3, -1>>, <<3, -6>>,
       <<4, 1>>, <<4, 6>>, <<4, -1>>, <<4, -6>>,
       <<6, 2>>, <<6, 3>>, <<6, 4>>,
       <<6, -2>>, <<6, -3>>, <<6, -4>> >>

\* the array of (row, col) pairs a stamper builds from its offsets: ok is FALSE
\* when one of the additions or subtractions panics, before set_cells is called
PatternCells(offsets, row, col, checks) ==
    LET r == [k \in 1..Len(offsets) |-> Offset(row, offsets[k][1], checks)]
        c == [k \in 1..Len(offsets) |-> Offset(col, offsets[k][2], checks)]
    IN  [ok |-> \A k \in 1..Len(offsets) : r[k].ok /\ c[k].ok,
         val |-> [k \in 1..Len(offsets) |-> <<r[k].val, c[k].val>>]]

\* a stamper: build the array, then self.set_cells(&cells)
StampResult(bs, w, offsets, row, col, checks) ==
    LET p == PatternCells(offsets, row, col, checks)
    IN  IF ~p.ok THEN [ok |-> FALSE, val |-> bs]
        ELSE SetCellsResult(bs, w, p.val, checks)

\* seed(bits): bits / 32 words, each drawn from the random source; the draw
\* gives the word at even and at odd places
Seed(bits, draw) ==
    [k \in 1..(bits \div BlockBits) |-> IF k % 2 = 1 THEN draw[1] ELSE draw[2]]

\* the draws the model lets the random source produce: at every place the
\* word 0, the largest word, and the word with all the bits below the largest
\* word's top bit, so that every bit some word of seed can have alive is alive
\* in one draw and dead in another
RandomDraws ==
    {<<0, 0>>, <<2 ^ 24 - 1, MaxSeedWord>>, <<MaxSeedWord, 2 ^ 24 - 1>>}

\* FixedBitSet::with_capacity_and_blocks(width * height, seed(width * height))
SeededCells(w, h, draw, checks) ==
    LET m == U32Mul(w, h, checks)
    IN  [ok |-> m.ok, val |-> WithCapacityAndBlocks(m.val, Seed(m.val, draw))]

(***************************************************************************)
(* The operations of Universe.  Each is one action; an operation that      *)
(* panics leaves status = "panicked" and the fields as they were at the    *)
(* panic, and no operation runs after a panic.                             *)
(***************************************************************************)
Outcome(ok) ==
    IF ok THEN "ok" ELSE "panicked"

\* history of an operation that is not a tick
Record(name, a, b, list) ==
    /\ op' = [name |-> name, a |-> a, b |-> b, list |-> list, ret |-> 0]
    /\ prev' = [width |-> width, height |-> height, cells |-> cells]
    /\ base' = cells'
    /\ gen' = 0

\* new(): 64 x 64, seeded
New(draw) ==
    LET c == SeededCells(DefaultWidth, DefaultHeight, draw, overflow_checks)
    IN  /\ width = DefaultWidth
        /\ height = DefaultHeight
        /\ cells = c.val
        /\ status = "ok"
        /\ op = [name |-> "new", a |-> 0, b |-> 0, list |-> <<>>, ret |-> 0]
        /\ prev = [width |-> width, height |-> height, cells |-> cells]
        /\ base = cells
        /\ gen = 0

\* a set_width that grows the bit set it has instead of making a new one
SetWidthKeep(w) ==
    \E m \in {U32Mul(w, height, overflow_checks)} :
        /\ status = "ok"
        /\ width' = w
        /\ height' = height
        /\ cells' = IF m.ok
                    THEN [length |-> m.val,
                          bits |-> [i \in 1..m.val |->
                                      IF i <= cells.length THEN cells.bits[i] ELSE FALSE]]
                    ELSE cells
        /\ status' = Outcome(m.ok)
        /\ Record("set_width", w, 0, <<>>)
        /\ UNCHANGED overflow_checks

\* set_width(w): self.width = w; self.cells = with_capacity(self.width * self.height)
SetWidth(w) ==
    \E m \in {U32Mul(w, height, overflow_checks)} :
        /\ status = "ok"
        /\ width' = w
        /\ height' = height
        /\ cells' = IF m.ok THEN WithCapacity(m.val) ELSE cells
        /\ status' = Outcome(m.ok)
        /\ Record("set_width", w, 0, <<>>)
        /\ UNCHANGED overflow_checks

\* a set_height that sizes the bit set before it stores the new height
SetHeightStale(h) ==
    \E m \in {U32Mul(height, width, overflow_checks)} :
        /\ status = "ok"
        /\ height' = h
        /\ width' = width
        /\ cells' = IF m.ok THEN WithCapacity(m.val) ELSE cells
        /\ status' = Outcome(m.ok)
        /\ Record("set_height", h, 0, <<>>)
        /\ UNCHANGED overflow_checks

\* set_height(h): self.height = h; self.cells = with_capacity(self.height * self.width)
SetHeight(h) ==
    \E m \in {U32Mul(h, width, overflow_checks)} :
        /\ status = "ok"
        /\ height' = h
        /\ width' = width
        /\ cells' = IF m.ok THEN WithCapacity(m.val) ELSE cells
        /\ status' = Outcome(m.ok)
        /\ Record("set_height", h, 0, <<>>)
        /\ UNCHANGED overflow_checks

\* toggle(row, col): idx = get_index(row, col); self.cells.toggle(idx)
Toggle(row, col) ==
    LET idx == GetIndex(width, row, col, overflow_checks)
        t == BitToggle(cells, idx.val)
    IN  /\ status = "ok"
        /\ cells' = IF idx.ok THEN t.val ELSE cells
        /\ status' = Outcome(idx.ok /\ t.ok)
        /\ Record("toggle", row, col, <<>>)
        /\ UNCHANGED <<width, height, overflow_checks>>

\* set_cells(list)
SetCells(list) ==
    \E r \in {SetCellsResult(cells, width, list, overflow_checks)} :
        /\ status = "ok"
        /\ cells' = r.val
        /\ status' = Outcome(r.ok)
        /\ Record("set_cells", 0, 0, list)
        /\ UNCHANGED <<width, height, overflow_checks>>

\* glider(row, col)
Glider(row, col) ==
    \E r \in {StampResult(cells, width, GliderOffsets, row, col, overflow_checks)} :
        /\ status = "ok"
        /\ cells' = r.val
        /\ status' = Outcome(r.ok)
        /\ Record("glider", row, col, <<>>)
        /\ UNCHANGED <<width, height, overflow_checks>>

\* pulsar(row, col)
Pulsar(row, col) ==
    \E r \in {StampResult(cells, width, PulsarOffsets, row, col, overflow_checks)} :
        /\ status = "ok"
        /\ cells' = r.val
        /\ status' = Outcome(r.ok)
        /\ Record("pulsar", row, col, <<>>)
        /\ UNCHANGED <<width, height, overflow_checks>>

\* tick(): self.cells = next once the loops have run
Tick ==
    \E r \in {TickResult(cells, width, height, overflow_checks)} :
        /\ status = "ok"
        /\ gen < MaxGen
        /\ cells' = IF r.ok THEN r.val ELSE cells
        /\ status' = Outcome(r.ok)
        /\ op' = [name |-> "tick", a |-> 0, b |-> 0, list |-> <<>>, ret |-> 0]
        /\ prev' = [width |-> width, height |-> height, cells |-> cells]
        /\ gen' = gen + 1
        /\ UNCHANGED <<width, height, overflow_checks, base>>

\* live_neighbour_count(row, col), as tick calls it: row < height, col < width;
\* the history keeps the positions read and the count returned
LiveNeighbourCountCall(row, col) ==
    \E n \in {LiveNeighbourCount(cells, width, height, row, col, overflow_checks)} :
        /\ status = "ok"
        /\ row < height
        /\ col < width
        /\ status' = Outcome(n.ok)
        /\ op' = [name |-> "live_neighbour_count", a |-> row, b |-> col,
                  list |-> Examined(width, height, row, col), ret |-> n.val]
        /\ prev' = [width |-> width, height |-> height, cells |-> cells]
        /\ UNCHANGED <<width, height, cells, overflow_checks, base, gen>>

\* get_index(row, col), a call; the history keeps the index returned
GetIndexCall(row, col) ==
    \E idx \in {GetIndex(width, row, col, overflow_checks)} :
        /\ status = "ok"
        /\ status' = Outcome(idx.ok)
        /\ op' = [name |-> "get_index", a |-> row, b |-> col, list |-> <<>>, ret |-> idx.val]
        /\ prev' = [width |-> width, height |-> height, cells |-> cells]
        /\ UNCHANGED <<width, height, cells, overflow_checks, base, gen>>

\* reset(): self.cells = with_capacity_and_blocks(capacity, seed(width * height))
Reset(draw) ==
    \E c \in {SeededCells(width, height, draw, overflow_checks)} :
        /\ status = "ok"
        /\ cells' = IF c.ok THEN c.val ELSE cells
        /\ status' = Outcome(c.ok)
        /\ Record("reset", 0, 0, <<>>)
        /\ UNCHANGED <<width, height, overflow_checks>>

\* a clear that replaces the bit set by an empty one
ClearToEmpty ==
    /\ status = "ok"
    /\ cells' = WithCapacity(0)
    /\ status' = "ok"
    /\ Record("clear", 0, 0, <<>>)
    /\ UNCHANGED <<width, height, overflow_checks>>

\* clear(): self.cells.clear() sets every bit false and keeps the length
Clear ==
    /\ status = "ok"
    /\ cells' = [cells EXCEPT !.bits = [i \in 1..cells.length |-> FALSE]]
    /\ status' = "ok"
    /\ Record("clear", 0, 0, <<>>)
    /\ UNCHANGED <<width, height, overflow_checks>>

(***************************************************************************)
(* Spec: the operations from new(), with dimensions and coordinates in     *)
(* 0..MaxDim; the operations that change single cells are taken on grids   *)
(* of at most MaxCells cells; pulsar, which fits no grid below 13 x 13, is *)
(* taken where it fits and one row above.                                  *)
(***************************************************************************)
Dims == 0..MaxDim

Small == BitLen(cells) <= MaxCells

\* the coordinates set_cells is handed
ListCoords == {<<0, 0>>, <<0, 1>>, <<1, 0>>}

\* the places glider is called at in Spec
StampCoords == (0..1) \X (0..1)

\* the places pulsar is called at in Spec
PulsarCoords == {<<PulsarReach, PulsarReach>>, <<PulsarReach - 1, PulsarReach>>}

RECURSIVE ListsUpTo(_, _)
ListsUpTo(S, n) ==
    IF n = 0 THEN {<<>>}
    ELSE LET shorter == ListsUpTo(S, n - 1)
         IN  shorter \cup {Append(l, x) : l \in shorter, x \in S}

CellLists == ListsUpTo(ListCoords, MaxListLen)

Init ==
    /\ overflow_checks \in BOOLEAN
    /\ \E draw \in RandomDraws : New(draw)

Next ==
    \/ \E w \in Dims : SetWidth(w)
    \/ \E h \in Dims : SetHeight(h)
    \/ \E row \in Dims, col \in Dims : Small /\ Toggle(row, col)
    \/ \E list \in CellLists : Small /\ SetCells(list)
    \/ \E rc \in StampCoords : Small /\ Glider(rc[1], rc[2])
    \/ \E rc \in PulsarCoords : Pulsar(rc[1], rc[2])
    \/ Small /\ Tick
    \/ \E draw \in RandomDraws : Reset(draw)
    \/ Clear

Spec == Init /\ [][Next]_vars

(***************************************************************************)
(* SpecGen: tick and clear from every content of every grid of at most     *)
(* MaxGenCells cells; the content is put there by set_cells on the grid    *)
(* set_width and set_height leave, and the neighbour count and the index   *)
(* of every cell are taken on it.                                          *)
(***************************************************************************)
\* the coordinates of a w x h grid in row-major order
AllCoords(w, h) ==
    [i \in 1..(w * h) |-> <<(i - 1) \div w, (i - 1) % w>>]

\* the coordinates of the set S, in row-major order
CoordList(w, h, S) ==
    LET In(x) == x \in S
    IN  SelectSeq(AllCoords(w, h), In)

\* the state set_cells(list) leaves on the all-dead w x h grid
AfterSetCells(w, h, list) ==
    /\ width = w
    /\ height = h
    /\ cells = SetCellsResult(WithCapacity(w * h), w, list, overflow_checks).val
    /\ status = "ok"
    /\ op = [name |-> "set_cells", a |-> 0, b |-> 0, list |-> list, ret |-> 0]
    /\ prev = [width |-> w, height |-> h, cells |-> WithCapacity(w * h)]
    /\ base = cells
    /\ gen = 0

GenInit ==
    /\ overflow_checks \in BOOLEAN
    /\ \E w \in Dims, h \in Dims :
          /\ w * h <= MaxGenCells
          /\ \E S \in SUBSET (Rows(h) \X Cols(w)) :
                AfterSetCells(w, h, CoordList(w, h, S))

GenNext ==
    \/ Tick
    \/ Clear
    \/ \E row \in Rows(height), col \in Cols(width) :
          op.name = "set_cells" /\ LiveNeighbourCountCall(row, col)
    \/ \E row \in Rows(height), col \in Cols(width) :
          op.name = "set_cells" /\ GetIndexCall(row, col)

SpecGen == GenInit /\ [][GenNext]_vars

(***************************************************************************)
(* SpecPat: one pattern stamped on a fresh grid (all dead, or seeded by    *)
(* reset), then ticks.  block, blinker and glider are stamped at every     *)
(* place of the grids of 4..MaxPatDim rows and columns, the grid's far     *)
(* edge included; pulsar on the square grids of MinPulsarDim and           *)
(* MaxPulsarDim rows, from one place before to one place after those where *)
(* it fits.                                                                *)
(***************************************************************************)
MinPulsarDim == 2 * PulsarReach + 1

PatDims == 4..MaxPatDim

PulsarDims == {MinPulsarDim, MaxPulsarDim}

\* the 2 x 2 block with its top left cell at (r, c)
BlockList(r, c) ==
    << <<r, c>>, <<r, c + 1>>, <<r + 1, c>>, <<r + 1, c + 1>> >>

\* the horizontal blinker centred on (r, c) of a grid w wide, its ends wrapped
BlinkerList(w, r, c) ==
    << <<r, (c + w - 1) % w>>, <<r, c>>, <<r, (c + 1) % w>> >>

\* the state set_height(h) leaves after new() and set_width(w)
AfterResize(w, h) ==
    /\ width = w
    /\ height = h
    /\ cells = WithCapacity(w * h)
    /\ status = "ok"
    /\ op = [name |-> "set_height", a |-> h, b |-> 0, list |-> <<>>, ret |-> 0]
    /\ prev = [width |-> w, height |-> DefaultHeight,
               cells |-> WithCapacity(w * DefaultHeight)]
    /\ base = cells
    /\ gen = 0

\* nothing has been done to the grid since it was made or seeded
Fresh ==
    op.name \in {"set_height", "reset"}

SmallPat == width \in PatDims /\ height \in PatDims

\* the rows (columns) pulsar is called at on a grid of d rows (columns): the
\* first and the last where it fits, the one before, the one after, the middle
PulsarPlaces(d) ==
    {PulsarReach - 1, PulsarReach, d \div 2, d - 1 - PulsarReach, d - PulsarReach}

\* the grids of SpecPat: width and height differ by at most one
PatShapes ==
    {d \in PatDims \X PatDims : d[1] - d[2] \in {-1, 0, 1}} \cup {<<n, n>> : n \in PulsarDims}

\* the draw the random source produces in SpecPat
PatDraws ==
    {<<MaxSeedWord, 5>>}

PatInit ==
    /\ overflow_checks \in BOOLEAN
    /\ \E d \in PatShapes : AfterResize(d[1], d[2])

PatNext ==
    \/ \E draw \in PatDraws : op.name = "set_height" /\ Reset(draw)
    \/ \E r \in Rows(height), c \in Cols(width) :
          Fresh /\ SmallPat /\ SetCells(BlockList(r, c))
    \/ \E r \in Rows(height), c \in Cols(width) :
          Fresh /\ SmallPat /\ SetCells(BlinkerList(width, r, c))
    \/ \E r \in 0..height, c \in 0..width :
          Fresh /\ SmallPat /\ Glider(r, c)
    \/ \E r \in PulsarPlaces(height), c \in PulsarPlaces(width) :
          Fresh /\ Pulsar(r, c)
    \/ ~Fresh /\ Tick
    \/ ~Fresh /\ Clear

SpecPat == PatInit /\ [][PatNext]_vars

(***************************************************************************)
(* The vocabulary of the properties: the grid as its description reads it, *)
(* row-major, and Life on the torus, written without the operators above.  *)
(***************************************************************************)
\* cell (r, c) of the grid w wide held in bs is alive
Alive(bs, w, r, c) ==
    r * w + c < bs.length /\ bs.bits[r * w + c + 1]

\* the live cells of the w x h grid held in bs
LiveCells(bs, w, h) ==
    {rc \in Rows(h) \X Cols(w) : Alive(bs, w, rc[1], rc[2])}

\* every coordinate of the list lies in the w x h grid
InGrid(list, w, h) ==
    \A k \in 1..Len(list) : list[k][1] < h /\ list[k][2] < w

\* the coordinates of the list
Listed(list) ==
    {list[k] : k \in 1..Len(list)}

\* the 8 offsets (dr, dc) in {-1, 0, 1}, not both 0
NeighbourOffsets ==
    {d \in {-1, 0, 1} \X {-1, 0, 1} : d # <<0, 0>>}

\* the toroidal neighbour of (r, c) at offset d
Neighbour(w, h, r, c, d) ==
    <<(r + d[1]) % h, (c + d[2]) % w>>

\* the number of the 8 toroidal neighbour positions of (r, c) that are alive
LifeNeighbours(bs, w, h, r, c) ==
    Cardinality({d \in NeighbourOffsets :
        Alive(bs, w, Neighbour(w, h, r, c, d)[1], Neighbour(w, h, r, c, d)[2])})

\* the rule of Life
LifeRule(alive, n) ==
    IF alive THEN n \in {2, 3} ELSE n = 3

\* the Life successor of the generation held in bs
LifeSuccessor(bs, w, h) ==
    [length |-> w * h,
     bits |-> [i \in 1..(w * h) |->
        LifeRule(bs.bits[i], LifeNeighbours(bs, w, h, (i - 1) \div w, (i - 1) % w))]]

(***************************************************************************)
(* C1.  tick on a grid with width >= 1 and height >= 1 replaces the grid   *)
(* by the Life successor of the generation it started from.                *)
(***************************************************************************)
\* C1: after a tick on a grid with width >= 1 and height >= 1, cells is the
\* Life successor of the pre-tick generation (each cell decided by the rule
\* from its 8 toroidal neighbours in that generation)
C1_TickIsLifeSuccessor ==
    (op.name = "tick" /\ prev.width >= 1 /\ prev.height >= 1)
        => /\ status = "ok"
           /\ cells = LifeSuccessor(prev.cells, prev.width, prev.height)

\* C1 on grids with width >= 2 and height >= 2: the same statement, where the
\* three deltas of live_neighbour_count are three different steps or, on a
\* dimension of 2, count the one other row or column twice as the torus does
C1_TickIsLifeSuccessorFrom2 ==
    (op.name = "tick" /\ prev.width >= 2 /\ prev.height >= 2)
        => /\ status = "ok"
           /\ cells = LifeSuccessor(prev.cells, prev.width, prev.height)

\* a tick of the 1 x 3 grid with (0, 1) alone alive has been taken
C1_TickOfOneRowGrid ==
    /\ op.name = "tick"
    /\ prev.width = 3
    /\ prev.height = 1
    /\ LiveCells(prev.cells, 3, 1) = {<<0, 1>>}

(***************************************************************************)
(* C2.  The number of bits of cells is width * height.                     *)
(***************************************************************************)
\* C2: in every state reached from new() by calls that did not fail, cells
\* holds exactly width * height bits
C2_CellsLengthIsWidthTimesHeight ==
    status = "ok" => BitLen(cells) = width * height

\* set_height has changed the number of cells of a 3-wide grid to 6
C2_ResizedGrid ==
    /\ status = "ok"
    /\ op.name = "set_height"
    /\ width = 3
    /\ height = 2
    /\ BitLen(cells) = 6
    /\ BitLen(prev.cells) # 6

(***************************************************************************)
(* C3.  set_width and set_height yield an all-dead grid of the new         *)
(* dimensions.                                                             *)
(***************************************************************************)
\* C3: after set_width(w) or set_height(h), whatever the content before and
\* whether or not the value changed, the grid has the new dimension, keeps the
\* other one, holds width * height cells and every cell is dead
C3_ResizeYieldsDeadGrid ==
    /\ op.name = "set_width"
          => /\ status = "ok"
             /\ width = op.a
             /\ height = prev.height
             /\ BitLen(cells) = op.a * prev.height
             /\ \A i \in 1..BitLen(cells) : ~cells.bits[i]
    /\ op.name = "set_height"
          => /\ status = "ok"
             /\ height = op.a
             /\ width = prev.width
             /\ BitLen(cells) = op.a * prev.width
             /\ \A i \in 1..BitLen(cells) : ~cells.bits[i]

\* set_width has been called with the width the grid had, on a grid with a
\* live cell
C3_ResizeToSameWidth ==
    /\ op.name = "set_width"
    /\ op.a = prev.width
    /\ op.a >= 1
    /\ prev.height >= 1
    /\ LiveCells(prev.cells, prev.width, prev.height) # {}
    /\ BitLen(cells) = BitLen(prev.cells)

(***************************************************************************)
(* C4.  live_neighbour_count reads the 8 toroidal neighbour positions.     *)
(***************************************************************************)
\* C4: on a grid with width >= 1 and height >= 1 (1 and 2 included), for an
\* in-range cell, live_neighbour_count reads exactly the 8 positions
\* ((row + dr) mod height, (col + dc) mod width), dr, dc in {-1, 0, 1} not
\* both 0, each as often as an offset leads to it, and returns the number of
\* them that are alive, a value in 0..8
C4_CountsEightToroidalNeighbours ==
    op.name = "live_neighbour_count"
        => /\ status = "ok"
           /\ Len(op.list) = 8
           /\ \A q \in Rows(height) \X Cols(width) :
                 Cardinality({k \in 1..Len(op.list) : op.list[k] = q})
                    = Cardinality({d \in NeighbourOffsets :
                                      Neighbour(width, height, op.a, op.b, d) = q})
           /\ op.ret = LifeNeighbours(cells, width, height, op.a, op.b)
           /\ op.ret \in 0..8

\* the same statement on grids with width >= 2 and height >= 2
C4_CountsEightToroidalNeighboursFrom2 ==
    (op.name = "live_neighbour_count" /\ width >= 2 /\ height >= 2)
        => /\ status = "ok"
           /\ Len(op.list) = 8
           /\ \A q \in Rows(height) \X Cols(width) :
                 Cardinality({k \in 1..Len(op.list) : op.list[k] = q})
                    = Cardinality({d \in NeighbourOffsets :
                                      Neighbour(width, height, op.a, op.b, d) = q})
           /\ op.ret = LifeNeighbours(cells, width, height, op.a, op.b)
           /\ op.ret \in 0..8

\* live_neighbour_count(0, 1) has been taken on the 1 x 3 grid with (0, 1)
\* alone alive
C4_CountOnOneRowGrid ==
    /\ op.name = "live_neighbour_count"
    /\ width = 3
    /\ height = 1
    /\ op.a = 0
    /\ op.b = 1
    /\ LiveCells(cells, 3, 1) = {<<0, 1>>}

(***************************************************************************)
(* C5.  The 2 x 2 block away from the wrap boundary is a still life.       *)
(***************************************************************************)
\* the 2 x 2 block with its top left cell at (r, c)
BlockAt(r, c) ==
    {<<r, c>>, <<r, c + 1>>, <<r + 1, c>>, <<r + 1, c + 1>>}

\* C5: on a grid with width >= 4 and height >= 4 whose only live cells were
\* the block at rows r..r+1, cols c..c+1, 1 <= r <= height-3, 1 <= c <= width-3,
\* every tick succeeds and the grid after any number of ticks is that grid
C5_BlockIsStill ==
    \E L \in {LiveCells(base, width, height)} :
        \A r \in 1..(height - 3), c \in 1..(width - 3) :
            (width >= 4 /\ height >= 4 /\ L = BlockAt(r, c))
                => /\ gen >= 1 => status = "ok"
                   /\ cells = base

\* the block in the last place the 4 x 5 grid allows has been ticked 3 times
C5_BlockTicked ==
    /\ op.name = "tick"
    /\ gen >= 3
    /\ width = 4
    /\ height = 5
    /\ LiveCells(base, width, height) = BlockAt(height - 3, width - 3)
    /\ LiveCells(cells, width, height) = BlockAt(height - 3, width - 3)

(***************************************************************************)
(* C6.  The blinker has period 2.                                          *)
(***************************************************************************)
\* the horizontal blinker centred on (r, c), on the torus
HBlinker(w, r, c) ==
    {<<r, (c + w - 1) % w>>, <<r, c>>, <<r, (c + 1) % w>>}

\* the vertical blinker centred on (r, c), on the torus
VBlinker(h, r, c) ==
    {<<(r + h - 1) % h, c>>, <<r, c>>, <<(r + 1) % h, c>>}

\* C6: on a grid with width >= 5 and height >= 5 whose only live cells were
\* the horizontal blinker centred on (r, c), every tick succeeds, the live
\* cells after an odd number of ticks are exactly the vertical blinker centred
\* on (r, c), and the grid after an even number of ticks is the grid with the
\* horizontal blinker
C6_BlinkerHasPeriodTwo ==
    \E L \in {LiveCells(base, width, height)} :
        \A r \in Rows(height), c \in Cols(width) :
            (width >= 5 /\ height >= 5 /\ L = HBlinker(width, r, c))
                => /\ gen >= 1 => status = "ok"
                   /\ gen % 2 = 1 => LiveCells(cells, width, height) = VBlinker(height, r, c)
                   /\ gen % 2 = 0 => cells = base

\* the blinker centred on the corner (0, 0) of the 5 x 5 grid has been ticked
\* twice
C6_BlinkerTickedTwice ==
    /\ op.name = "tick"
    /\ gen = 2
    /\ width = 5
    /\ height = 5
    /\ LiveCells(base, 5, 5) = HBlinker(5, 0, 0)
    /\ LiveCells(prev.cells, 5, 5) = VBlinker(5, 0, 0)
    /\ cells = base

(***************************************************************************)
(* C7.  toggle flips exactly one cell.                                     *)
(***************************************************************************)
\* C7: toggle(row, col) with row < height and col < width succeeds, flips
\* cell (row, col) and leaves every other cell, width and height as they were
C7_ToggleFlipsOneCell ==
    (op.name = "toggle" /\ op.a < prev.height /\ op.b < prev.width)
        => /\ status = "ok"
           /\ width = prev.width
           /\ height = prev.height
           /\ BitLen(cells) = BitLen(prev.cells)
           /\ \A rc \in Rows(height) \X Cols(width) :
                 Alive(cells, width, rc[1], rc[2])
                    = IF rc = <<op.a, op.b>>
                      THEN ~Alive(prev.cells, width, rc[1], rc[2])
                      ELSE Alive(prev.cells, width, rc[1], rc[2])

\* toggle(1, 2) has killed the live cell (1, 2) of the grid 3 wide and 2 high,
\* next to another live cell
C7_ToggledLiveCell ==
    /\ op.name = "toggle"
    /\ op.a = 1
    /\ op.b = 2
    /\ width = 3
    /\ height = 2
    /\ status = "ok"
    /\ Alive(prev.cells, 3, 1, 2)
    /\ ~Alive(cells, 3, 1, 2)
    /\ LiveCells(cells, 3, 2) # {}

(***************************************************************************)
(* C8.  A coordinate outside the grid is a fatal failure.                  *)
(***************************************************************************)
\* the coordinates of the list that lie in the w x h grid
ListedInGrid(list, w, h) ==
    {rc \in Listed(list) : rc[1] < h /\ rc[2] < w}

\* C8: a toggle(row, col) with row >= height or col >= width fails and leaves
\* every cell as it was; a set_cells with such an entry fails, and no cell
\* other than those of its in-range entries is changed
C8_OutOfRangeIsFatal ==
    /\ (op.name = "toggle" /\ (op.a >= prev.height \/ op.b >= prev.width))
          => /\ status = "panicked"
             /\ cells = prev.cells
    /\ (op.name = "set_cells" /\ ~InGrid(op.list, prev.width, prev.height))
          => /\ status = "panicked"
             /\ LiveCells(cells, width, height)
                   \subseteq LiveCells(prev.cells, width, height)
                                \cup ListedInGrid(op.list, width, height)

\* toggle(0, 2) has been called on the all-dead 2 x 2 grid
C8_ToggleBeyondLastColumn ==
    /\ op.name = "toggle"
    /\ op.a = 0
    /\ op.b = 2
    /\ prev.width = 2
    /\ prev.height = 2
    /\ LiveCells(prev.cells, 2, 2) = {}

(***************************************************************************)
(* C9.  set_cells is idempotent.                                           *)
(***************************************************************************)
\* C9: a set_cells with a list of in-range coordinates succeeds and leaves
\* alive exactly the cells that were alive and the cells listed, however
\* often each is listed; called again with the list of the call before it, it
\* changes nothing
C9_SetCellsIdempotent ==
    [][(op'.name = "set_cells" /\ status = "ok" /\ InGrid(op'.list, width, height))
          => /\ status' = "ok"
             /\ width' = width
             /\ height' = height
             /\ LiveCells(cells', width, height)
                   = LiveCells(cells, width, height) \cup Listed(op'.list)
             /\ (op.name = "set_cells" /\ op.list = op'.list) => cells' = cells]_vars

\* set_cells has been called with a list that names one in-range cell twice,
\* on a grid where the call before had set that cell
C9_SetSameCellAgain ==
    /\ op.name = "set_cells"
    /\ status = "ok"
    /\ Len(op.list) = 2
    /\ op.list[1] = op.list[2]
    /\ InGrid(op.list, width, height)
    /\ Alive(prev.cells, width, op.list[1][1], op.list[1][2])
    /\ cells = prev.cells

(***************************************************************************)
(* C10.  glider sets its 5 cells and pulsar its 48 cells.                  *)
(***************************************************************************)
\* the 5 cells of the glider at (r, c)
GliderCells(r, c) ==
    {<<r, c>>, <<r, c + 1>>, <<r - 1, c - 1>>, <<r + 1, c>>, <<r + 1, c - 1>>}

\* the 48 offsets of the pulsar: rows 1 and 6 away with columns 2, 3, 4 away,
\* and rows 2, 3, 4 away with columns 1 and 6 away
PulsarShape ==
    {d \in (-6..6) \X (-6..6) :
        \/ d[1] \in {-6, -1, 1, 6} /\ d[2] \in {-4, -3, -2, 2, 3, 4}
        \/ d[1] \in {-4, -3, -2, 2, 3, 4} /\ d[2] \in {-6, -1, 1, 6}}

\* the 48 cells of the pulsar at (r, c)
PulsarCells(r, c) ==
    {<<r + d[1], c + d[2]>> : d \in PulsarShape}

\* C10: glider(row, col) with 1 <= row <= height-2 and 1 <= col <= width-2
\* succeeds and leaves alive exactly the cells that were alive and its 5
\* distinct cells; pulsar(row, col) with 6 <= row <= height-7 and
\* 6 <= col <= width-7 does so with its 48 distinct cells; width and height
\* stay as they were
C10_StampersSetTheirCells ==
    /\ (/\ op.name = "glider"
        /\ 1 <= op.a /\ op.a <= prev.height - 2
        /\ 1 <= op.b /\ op.b <= prev.width - 2)
          => /\ status = "ok"
             /\ width = prev.width
             /\ height = prev.height
             /\ Cardinality(GliderCells(op.a, op.b)) = 5
             /\ LiveCells(cells, width, height)
                   = LiveCells(prev.cells, width, height) \cup GliderCells(op.a, op.b)
    /\ (/\ op.name = "pulsar"
        /\ 6 <= op.a /\ op.a <= prev.height - 7
        /\ 6 <= op.b /\ op.b <= prev.width - 7)
          => /\ status = "ok"
             /\ width = prev.width
             /\ height = prev.height
             /\ Cardinality(PulsarCells(op.a, op.b)) = 48
             /\ LiveCells(cells, width, height)
                   = LiveCells(prev.cells, width, height) \cup PulsarCells(op.a, op.b)

\* pulsar has been stamped where it fits on a seeded grid, next to cells that
\* were alive
C10_PulsarOnSeededGrid ==
    /\ op.name = "pulsar"
    /\ status = "ok"
    /\ 6 <= op.a /\ op.a <= height - 7
    /\ 6 <= op.b /\ op.b <= width - 7
    /\ LiveCells(prev.cells, width, height) # {}
    /\ ~(LiveCells(prev.cells, width, height) \subseteq PulsarCells(op.a, op.b))

(***************************************************************************)
(* C11.  A stamp whose offset subtraction goes below zero is fatal.        *)
(***************************************************************************)
\* C11: glider(row, col) with row = 0 or col = 0, and pulsar(row, col) with
\* row < 6 or col < 6, end in a fatal failure: the call never completes
C11_UnderflowIsFatal ==
    /\ (op.name = "glider" /\ (op.a = 0 \/ op.b = 0)) => status = "panicked"
    /\ (op.name = "pulsar" /\ (op.a < PulsarReach \/ op.b < PulsarReach))
          => status = "panicked"

\* glider(2, 0) has been called on an all-dead grid at least 4 high, in the
\* build where arithmetic wraps
C11_GliderAtFirstColumn ==
    /\ op.name = "glider"
    /\ op.a = 2
    /\ op.b = 0
    /\ height >= 4
    /\ ~overflow_checks
    /\ LiveCells(prev.cells, width, height) = {}

(***************************************************************************)
(* C12.  A stamp that leaves the grid on the high side wraps.              *)
(***************************************************************************)
\* the cells of S taken toroidally on the w x h grid
Wrapped(S, w, h) ==
    {<<rc[1] % h, rc[2] % w>> : rc \in S}

\* C12: glider(row, col) with 1 <= row <= height-1 and 1 <= col <= width-1,
\* where no subtraction underflows, succeeds and leaves alive exactly the
\* cells that were alive and its 5 members, each at (member_row mod height,
\* member_col mod width); so with col = width-1 member (row, col+1) is cell
\* (row, 0)
C12_HighSideStampWraps ==
    (/\ op.name = "glider"
     /\ 1 <= op.a /\ op.a <= prev.height - 1
     /\ 1 <= op.b /\ op.b <= prev.width - 1)
        => /\ status = "ok"
           /\ LiveCells(cells, width, height)
                 = LiveCells(prev.cells, width, height)
                      \cup Wrapped(GliderCells(op.a, op.b), width, height)

\* glider(1, width-1) has been called on an all-dead grid 4 wide and has set
\* cell (2, 0), leaving cell (1, 0) dead
C12_GliderAtLastColumn ==
    /\ op.name = "glider"
    /\ op.a = 1
    /\ op.b = 3
    /\ width = 4
    /\ height >= 4
    /\ status = "ok"
    /\ LiveCells(prev.cells, width, height) = {}
    /\ Alive(cells, width, 2, 0)
    /\ ~Alive(cells, width, 1, 0)

(***************************************************************************)
(* C13.  new() and reset() seed width * height bits without bias.          *)
(***************************************************************************)
\* C13: after new() and after reset(), cells holds width * height bits, reset
\* has left width and height as they were, and for every cell index there is
\* an outcome of the random source in which the cell is alive and one in
\* which it is dead
C13_SeedingHasNoBias ==
    op.name \in {"new", "reset"}
        => /\ status = "ok"
           /\ BitLen(cells) = width * height
           /\ op.name = "reset" => (width = prev.width /\ height = prev.height)
           /\ \E G \in {[d \in RandomDraws |->
                          SeededCells(width, height, d, overflow_checks).val]} :
                 \A i \in 1..(width * height) :
                    /\ \E d \in RandomDraws : G[d].bits[i]
                    /\ \E d \in RandomDraws : ~G[d].bits[i]

\* what the seeding does instead: the cells after the last whole 32-bit word,
\* and the cells at bits 25..31 of every word, are dead after new() and reset()
C13_SeedLeavesCellsDead ==
    op.name \in {"new", "reset"}
        => \A i \in 1..BitLen(cells) :
              ((i - 1) % BlockBits >= 25 \/ (i - 1) \div BlockBits >= BitLen(cells) \div BlockBits)
                 => ~cells.bits[i]

\* reset() has been called on a 2 x 2 grid
C13_ResetOfSmallGrid ==
    /\ op.name = "reset"
    /\ status = "ok"
    /\ width = 2
    /\ height = 2

(***************************************************************************)
(* C14.  clear() kills every cell and keeps the grid's size.               *)
(***************************************************************************)
\* C14: after clear(), from any reachable state, every cell is dead and
\* width, height and the number of bits of cells are what they were
C14_ClearKillsEveryCell ==
    op.name = "clear"
        => /\ status = "ok"
           /\ width = prev.width
           /\ height = prev.height
           /\ BitLen(cells) = BitLen(prev.cells)
           /\ \A i \in 1..BitLen(cells) : ~cells.bits[i]

\* clear() has been called on a grid with a live cell
C14_ClearedLiveGrid ==
    /\ op.name = "clear"
    /\ width >= 2
    /\ height >= 2
    /\ LiveCells(prev.cells, width, height) # {}
    /\ LiveCells(cells, width, height) = {}
    /\ BitLen(cells) = width * height

(***************************************************************************)
(* C15.  The pulsar is an oscillator of period 3.                          *)
(***************************************************************************)
\* C15: on a grid with width >= 17 and height >= 17 whose only live cells
\* were those pulsar(row, col) stamped, 8 <= row <= height-9 and
\* 8 <= col <= width-9, every tick succeeds, the grid after one tick differs
\* from the stamped grid, and the grid after every third tick is the stamped
\* grid
C15_PulsarHasPeriodThree ==
    \E L \in {LiveCells(base, width, height)} :
        \A r \in 8..(height - 9), c \in 8..(width - 9) :
            (width >= 17 /\ height >= 17 /\ L = PulsarCells(r, c))
                => /\ gen >= 1 => status = "ok"
                   /\ gen = 1 => cells # base
                   /\ gen % 3 = 0 => cells = base

\* the pulsar stamped on an all-dead grid has been ticked 6 times, through
\* two grids that differ from it and from each other
C15_PulsarTickedSixTimes ==
    /\ op.name = "tick"
    /\ gen = 6
    /\ width >= 17
    /\ height >= 17
    /\ \E r \in 8..(height - 9), c \in 8..(width - 9) :
          LiveCells(base, width, height) = PulsarCells(r, c)
    /\ cells = base
    /\ prev.cells # base

(***************************************************************************)
(* C16.  get_index is row * width + col, a bijection onto the bits.        *)
(***************************************************************************)
\* C16: with width >= 1, height >= 1, row < height and col < width,
\* get_index(row, col) returns row * width + col, an index in
\* 0..width*height-1; no other in-range cell has that index, and every index
\* in 0..width*height-1 is the index of an in-range cell
C16_GetIndexIsBijection ==
    op.name = "get_index"
        => /\ status = "ok"
           /\ op.ret = op.a * width + op.b
           /\ op.ret \in 0..(width * height - 1)
           /\ \A rc \in Rows(height) \X Cols(width) :
                 GetIndex(width, rc[1], rc[2], overflow_checks).val = op.ret
                    => rc = <<op.a, op.b>>
           /\ \A i \in 0..(width * height - 1) :
                 \E rc \in Rows(height) \X Cols(width) :
                    GetIndex(width, rc[1], rc[2], overflow_checks).val = i

\* get_index(1, 2) has been taken on the grid 3 wide and 2 high
C16_IndexOfLastCell ==
    /\ op.name = "get_index"
    /\ width = 3
    /\ height = 2
    /\ op.a = 1
    /\ op.b = 2
    /\ op.ret = 5

(***************************************************************************)
(* C17.  tick never fails on a grid with positive dimensions.              *)
(***************************************************************************)
\* C17: a tick on a grid with width >= 1 and height >= 1 succeeds and leaves
\* width and height as they were; the index of every cell it decides, and of
\* every position live_neighbour_count reads for it, lies in 0..width*height-1
C17_TickNeverFails ==
    (op.name = "tick" /\ prev.width >= 1 /\ prev.height >= 1)
        => /\ status = "ok"
           /\ width = prev.width
           /\ height = prev.height
           /\ \A rc \in Rows(height) \X Cols(width) :
                 /\ GetIndex(width, rc[1], rc[2], overflow_checks).val
                       \in 0..(width * height - 1)
                 /\ \E read \in {Examined(width, height, rc[1], rc[2])} :
                       \A k \in 1..Len(read) :
                          GetIndex(width, read[k][1], read[k][2], overflow_checks).val
                             \in 0..(width * height - 1)

\* a full 3 x 3 grid has been ticked
C17_TickOfFullGrid ==
    /\ op.name = "tick"
    /\ status = "ok"
    /\ width = 3
    /\ height = 3
    /\ Cardinality(LiveCells(prev.cells, 3, 3)) = 9

(***************************************************************************)
(* C18.  The all-dead grid is a fixed point of tick.                       *)
(***************************************************************************)
\* C18: on a grid with width >= 1 and height >= 1 that clear(), set_width or
\* set_height (or any other call) left all dead, every tick succeeds and every
\* cell is dead after any number of ticks
C18_DeadGridStaysDead ==
    (width >= 1 /\ height >= 1 /\ \A i \in 1..BitLen(base) : ~base.bits[i])
        => /\ gen >= 1 => status = "ok"
           /\ BitLen(cells) = width * height
           /\ \A i \in 1..BitLen(cells) : ~cells.bits[i]

\* the grid 1 wide and 3 high has been ticked 3 times since it was all dead
C18_DeadColumnTicked ==
    /\ op.name = "tick"
    /\ gen >= 3
    /\ width = 1
    /\ height = 3
    /\ LiveCells(base, 1, 3) = {}
    /\ LiveCells(cells, 1, 3) = {}

(***************************************************************************)
(* C19.  The glider moves one row down and one column right in 4 ticks.    *)
(***************************************************************************)
\* the cells of S moved by (dr, dc) on the w x h torus
Translated(S, dr, dc, w, h) ==
    {<<(rc[1] + dr) % h, (rc[2] + dc) % w>> : rc \in S}

\* C19: on a grid with width >= 6 and height >= 6 whose only live cells were
\* those glider(row, col) stamped, 1 <= row <= height-2 and
\* 1 <= col <= width-2, every tick succeeds, the grid holds exactly 5 live
\* cells after each of the first 4 ticks, and the live cells after the 4th
\* are the stamped cells moved by (+1, +1) toroidally
C19_GliderMovesDiagonally ==
    \E L \in {LiveCells(base, width, height)} :
        \A r \in 1..(height - 2), c \in 1..(width - 2) :
            (width >= 6 /\ height >= 6 /\ L = GliderCells(r, c))
                => /\ gen >= 1 => status = "ok"
                   /\ gen \in 1..4 => Cardinality(LiveCells(cells, width, height)) = 5
                   /\ gen = 4 => LiveCells(cells, width, height)
                                    = Translated(L, 1, 1, width, height)

\* the glider stamped in the last place the 6 x 6 grid allows has been ticked
\* 4 times and has crossed both edges
C19_GliderTickedFourTimes ==
    /\ op.name = "tick"
    /\ gen = 4
    /\ width = 6
    /\ height = 6
    /\ LiveCells(base, 6, 6) = GliderCells(4, 4)
    /\ LiveCells(cells, 6, 6) = Translated(GliderCells(4, 4), 1, 1, 6, 6)
    /\ <<0, 5>> \in LiveCells(cells, 6, 6)
    /\ <<5, 0>> \in LiveCells(cells, 6, 6)

(***************************************************************************)
(* C20.  set_cells works in list order and stops at the first failure.     *)
(***************************************************************************)
\* the index a coordinate maps to on a grid w wide
IndexOf(w, rc) ==
    rc[1] * w + rc[2]

\* the place in the list of the first coordinate whose index is outside
\* 0..n-1, or Len(list) + 1 when there is none
FirstOutside(list, w, n) ==
    IF \A j \in 1..Len(list) : IndexOf(w, list[j]) \in 0..(n - 1)
    THEN Len(list) + 1
    ELSE CHOOSE k \in 1..Len(list) :
            /\ IndexOf(w, list[k]) \notin 0..(n - 1)
            /\ \A j \in 1..(k - 1) : IndexOf(w, list[j]) \in 0..(n - 1)

C20_BlockOnLastRow ==
    /\ op.name = "set_cells"
    /\ status = "panicked"
    /\ Len(op.list) = 4
    /\ op.list[1][1] = height - 1
    /\ op.list[3][1] = height
    /\ LiveCells(prev.cells, width, height) = {}
    /\ LiveCells(cells, width, height) = {op.list[1], op.list[2]}

====
